---------------------------- MODULE Spec2Model ----------------------------
(***************************************************************************)
(* Model of clean_amazon_product_metadata_main.py: the Beam pipeline that  *)
(* joins Amazon product metadata with attribute labels, flattens the text  *)
(* sources into paragraphs, cleans the paragraphs and keeps one document   *)
(* per identifier.                                                         *)
(*                                                                         *)
(* A text is a sequence of characters, each character a one-character      *)
(* string; SUR stands for one lone surrogate (a character UTF-8 cannot     *)
(* encode) and REPL for U+FFFD.                                            *)
(***************************************************************************)
EXTENDS Integers, Sequences, FiniteSets, TLC

VARIABLES
  raw,           \* the raw metadata records, in file order (JSONLoads_AmazonMetadata)
  labels,        \* the label records read (JSONLoads_Labels)
  keyed,         \* the label records KeyById has already put into the side input
  labels_by_id,  \* the side input AsDict(labels): identifier -> label record
  stage,         \* stage[i]: how far raw[i] has travelled through the ParDos
  elem,          \* elem[i]: the element raw[i] currently is
  outcomes,      \* outcomes[i]: what CleanParagraphsFn did with each paragraph (its counter events)
  groups,        \* GroupByASIN: identifier -> the documents of the group, in delivery order
  deduped,       \* the identifiers DedupeASIN has emitted
  output,        \* the documents handed to JSONDumps / WriteToJSONLine
  failed,        \* a DoFn raised: the pipeline run has failed
  run,           \* which run of the pipeline on this input this is (1 or 2)
  prevOutput,    \* the output of the first run, kept to compare the second with
  gen            \* how the input text was generated (token counts), for the is_css cases

vars == <<raw, labels, keyed, labels_by_id, stage, elem, outcomes, groups,
          deduped, output, failed, run, prevOutput, gen>>

-----------------------------------------------------------------------------
(* Bounds of the model *)

MaxRaw == 2
MaxPieces == 3
MaxCssTokens == 22
MaxPlainTokens == 50

-----------------------------------------------------------------------------
(* Characters and texts *)

SUR == "U+D800"
REPL == "U+FFFD"

Letters ==
  {"a","b","c","d","e","f","g","h","i","j","k","l","m","n","o","p","q","r",
   "s","t","u","v","w","x","y","z","D","H","T","X"}

Digits == {"0","1","2","3","4","5","6","7","8","9"}

HexDigits == Digits \cup {"a","b","c","d","e","f","A","B","C","D","E","F"}

Spaces == {" "}
IsSpace(c) == c \in Spaces
NotSpace(c) == c \notin Spaces
IsLetter(c) == c \in Letters
IsAlnum(c) == c \in Letters \cup Digits
IsHex(c) == c \in HexDigits
IsDigit(c) == c \in Digits

LowerChar(c) ==
  CASE c = "D" -> "d" [] c = "H" -> "h" [] c = "T" -> "t" [] c = "X" -> "x"
    [] OTHER -> c

Lower(s) == [k \in 1..Len(s) |-> LowerChar(s[k])]

\* s[i..] starts with pat
StartsWith(s, i, pat) ==
  /\ i + Len(pat) - 1 <= Len(s)
  /\ \A k \in 1..Len(pat) : s[i + k - 1] = pat[k]

\* Python's `pat in s`
Contains(pat, s) == \E i \in 1..(Len(s) - Len(pat) + 1) : StartsWith(s, i, pat)

\* the least element of a non-empty set of numbers
Least(K) == CHOOSE a \in K : \A b \in K : a <= b

\* the first index k >= i with s[k] = c, or 0 (str.find, 1-based)
FindFrom(s, c, i) ==
  IF \E k \in i..Len(s) : s[k] = c
  THEN Least({k \in i..Len(s) : s[k] = c})
  ELSE 0

\* the first index k >= i with s[k] not in S, or Len(s) + 1
SkipIn(s, i, S) ==
  IF \E k \in i..Len(s) : s[k] \notin S
  THEN Least({k \in i..Len(s) : s[k] \notin S})
  ELSE IF i > Len(s) THEN i ELSE Len(s) + 1

\* the first index k >= i with s[k] in S, or Len(s) + 1
SkipNotIn(s, i, S) ==
  IF \E k \in i..Len(s) : s[k] \in S
  THEN Least({k \in i..Len(s) : s[k] \in S})
  ELSE IF i > Len(s) THEN i ELSE Len(s) + 1

\* the last index k <= i with s[k] not in S, or 0
RECURSIVE SkipBackIn(_, _, _)
SkipBackIn(s, i, S) ==
  IF i < 1 THEN 0
  ELSE IF s[i] \in S THEN SkipBackIn(s, i - 1, S)
  ELSE i

\* str.strip()
strip(s) == SubSeq(s, SkipIn(s, 1, Spaces), SkipBackIn(s, Len(s), Spaces))

\* str.split(): the whitespace-delimited tokens of s from index i on
RECURSIVE splitFrom(_, _)
splitFrom(s, i) ==
  LET b == SkipIn(s, i, Spaces)
      e == SkipNotIn(s, b, Spaces)
  IN IF b > Len(s) THEN <<>>
     ELSE <<SubSeq(s, b, e - 1)>> \o splitFrom(s, e)

split(s) == splitFrom(s, 1)

\* ' '.join(parts)
RECURSIVE join(_)
join(parts) ==
  IF parts = <<>> THEN <<>>
  ELSE IF Len(parts) = 1 THEN parts[1]
  ELSE parts[1] \o <<" ">> \o join(Tail(parts))

\* text.encode('utf-8', 'ignore').decode('utf-8'): the characters UTF-8 cannot
\* encode (lone surrogates) are left out
RoundTrip(text) == SelectSeq(text, LAMBDA c : c # SUR)

Identity(text) == text

-----------------------------------------------------------------------------
(* remove_tags: bs4.BeautifulSoup(html, 'html.parser'), style and script     *)
(* elements decomposed, then ' '.join(soup.stripped_strings).               *)
(*                                                                         *)
(* Parse walks the markup as html.parser does with convert_charrefs off    *)
(* (the way bs4 drives it) and returns the text nodes of the tree that are *)
(* outside style and script elements.  cur is the text collected since the *)
(* last tag, nodes the finished text nodes, cdata the name of the open     *)
(* script/style element (its content is raw text up to its end tag).       *)
(* Comments, declarations, processing instructions, quoted attribute       *)
(* values and ill-formed numeric references are outside the alphabet of    *)
(* the inputs.                                                             *)

NoCdata == <<>>

CDATA_CONTENT_ELEMENTS == {<<"s","c","r","i","p","t">>, <<"s","t","y","l","e">>}

\* bs4's handle_entityref: a known entity name becomes its character, an
\* unknown one stays as "&name" (the terminating ';' is consumed either way)
EntityText(name) ==
  CASE name = <<"a","m","p">> -> <<"&">>
    [] name = <<"l","t">> -> <<"<">>
    [] name = <<"g","t">> -> <<">">>
    [] OTHER -> <<"&">> \o name

\* bs4's handle_charref: chr(int(name)); chr() of a surrogate code point is a
\* lone surrogate.  Other code points are outside the alphabet.
CharrefText(name) ==
  IF Lower(name) = <<"x","d","8","0","0">> THEN <<SUR>> ELSE <<REPL>>

PState(i, cur, nodes, cdata) == [i |-> i, cur |-> cur, nodes |-> nodes, cdata |-> cdata]

\* one step of the parser at position i: the state it moves to
ParseStep(s, i, cur, nodes, cdata) ==
  LET n == Len(s)
      Flushed == IF cur # <<>> THEN Append(nodes, cur) ELSE nodes
  IN
  IF cdata # NoCdata THEN
    \* inside <script>/<style>: raw text up to a well-formed end tag of it
    LET lt == FindFrom(s, "<", i)
    IN IF lt = 0 THEN PState(n + 1, <<>>, nodes, cdata)
       ELSE IF ~StartsWith(s, lt, <<"<", "/">>) THEN PState(lt + 1, <<>>, nodes, cdata)
       ELSE LET gt == FindFrom(s, ">", lt + 1)
                e == SkipIn(s, lt + 2, Letters \cup Digits \cup {"-", ".", ":", "_"})
                e2 == SkipIn(s, e, Spaces)
            IN IF gt = 0 THEN PState(n + 1, <<>>, nodes, cdata)
               ELSE IF /\ e > lt + 2
                       /\ IsLetter(s[lt + 2])
                       /\ e2 = gt
                       /\ Lower(SubSeq(s, lt + 2, e - 1)) = cdata
                    THEN PState(gt + 1, <<>>, nodes, NoCdata)
                    ELSE PState(gt + 1, <<>>, nodes, cdata)
  ELSE IF s[i] = "<" THEN
    IF i + 1 <= n /\ (IsLetter(s[i + 1]) \/ s[i + 1] = "/") THEN
      LET gt == FindFrom(s, ">", i + 1)
          lt == FindFrom(s, "<", i + 1)
          k == IF lt # 0 THEN lt ELSE i + 1
          e == SkipNotIn(s, i + 1, Spaces \cup {"/", ">"})
          name == Lower(SubSeq(s, i + 1, e - 1))
      IN IF gt = 0
         THEN \* no '>' ever closes it: the text up to the next '<' is data
              PState(k, cur \o SubSeq(s, i, k - 1), nodes, cdata)
         ELSE IF s[i + 1] # "/" /\ name \in CDATA_CONTENT_ELEMENTS
         THEN PState(gt + 1, <<>>, Flushed, name)
         ELSE \* any other start tag, or an end tag: the text node ends here
              PState(gt + 1, <<>>, Flushed, cdata)
    ELSE PState(i + 1, Append(cur, "<"), nodes, cdata)
  ELSE IF s[i] = "&" THEN
    IF StartsWith(s, i, <<"&", "#">>) THEN
      LET hex == i + 2 <= n /\ s[i + 2] \in {"x", "X"}
          e == IF hex THEN SkipIn(s, i + 3, HexDigits) ELSE SkipIn(s, i + 2, Digits)
          ok == /\ e <= n
                /\ IF hex THEN e > i + 3 ELSE e > i + 2 /\ ~IsHex(s[e])
      IN IF ok
         THEN PState(IF s[e] = ";" THEN e + 1 ELSE e,
                    cur \o CharrefText(SubSeq(s, i + 2, e - 1)), nodes, cdata)
         ELSE IF FindFrom(s, ";", i) # 0
         THEN \* not a reference, a ';' follows somewhere: "&#" is data
              PState(i + 2, cur \o <<"&", "#">>, nodes, cdata)
         ELSE PState(n + 1, cur \o SubSeq(s, i, n), nodes, cdata)
    ELSE IF i + 1 <= n /\ IsLetter(s[i + 1]) THEN
      LET e == SkipIn(s, i + 1, Letters \cup Digits)
      IN IF e <= n
         THEN PState(IF s[e] = ";" THEN e + 1 ELSE e,
                    cur \o EntityText(SubSeq(s, i + 1, e - 1)), nodes, cdata)
         ELSE IF n - i = 1
         THEN \* "&x" is all that is left: html.parser skips the '&'
              PState(n + 1, cur \o SubSeq(s, i + 1, n), nodes, cdata)
         ELSE PState(n + 1, cur \o SubSeq(s, i, n), nodes, cdata)
    ELSE PState(i + 1, Append(cur, "&"), nodes, cdata)
  ELSE
    \* plain text up to the next '<' or '&'
    LET j == SkipNotIn(s, i, {"<", "&"})
    IN PState(j, cur \o SubSeq(s, i, j - 1), nodes, cdata)

\* the parser run from state st to the end of the markup: the text nodes
RECURSIVE Parse(_, _)
Parse(s, st) ==
  IF st.i > Len(s)
  THEN IF st.cdata = NoCdata /\ st.cur # <<>> THEN Append(st.nodes, st.cur) ELSE st.nodes
  ELSE Parse(s, ParseStep(s, st.i, st.cur, st.nodes, st.cdata))

\* soup.stripped_strings: every text node stripped, the empty ones left out
stripped_strings(nodes) ==
  SelectSeq([k \in 1..Len(nodes) |-> strip(nodes[k])], LAMBDA x : x # <<>>)

remove_tags(html) ==
  join(stripped_strings(Parse(html, PState(1, <<>>, <<>>, NoCdata))))

-----------------------------------------------------------------------------
(* The detectors *)

CssRatioNum == 3
CssRatioDen == 10
CssMinElements == 20

Count(s, c) == Cardinality({k \in 1..Len(s) : s[k] = c})

\* the condition of is_css's loop body: the token counts as a CSS element
IsCssElement(token) ==
  \/ StartsWith(token, 1, <<".">>)
  \/ StartsWith(token, 1, <<"#">>)
  \/ StartsWith(token, 1, <<"d","i","v">>)
  \/ Contains(<<"p","x">>, token)
  \/ Count(token, "-") > 1

\* a detector whose ratio test is `>=` where is_css has `>`
RatioReached(num_css_elements, num_tokens) ==
  num_css_elements * CssRatioDen >= CssRatioNum * num_tokens

\* num_css_elements / num_tokens > 0.3, the float comparison done in exact
\* arithmetic (0.3 as CssRatioNum / CssRatioDen)
RatioExceeded(num_css_elements, num_tokens) ==
  num_css_elements * CssRatioDen > CssRatioNum * num_tokens

\* is_css(text): [raised |-> the division raised ZeroDivisionError, value |-> the result]
is_css(text) ==
  LET tokens == split(text)
      num_tokens == Len(tokens)
      num_css_elements == Cardinality({k \in 1..num_tokens : IsCssElement(tokens[k])})
  IN IF num_tokens = 0
     THEN [raised |-> TRUE, value |-> FALSE]
     ELSE [raised |-> FALSE,
           value |-> RatioExceeded(num_css_elements, num_tokens)
                       /\ num_css_elements > CssMinElements]

HtmlMarkers ==
  { <<"<","a"," ","h","r","e","f">>,
    <<"j","a","v","a","s","c","r","i","p","t",":">>,
    <<"b","a","c","k","g","r","o","u","n","d","-","c","o","l","o","r",":">>,
    <<"b","a","c","k","g","r","o","u","n","d","-","i","m","a","g","e",":">>,
    <<" ","l","i",":">>,
    <<".","a","l","o","h","a">> }

is_html(text) == \E m \in HtmlMarkers : Contains(m, text)

-----------------------------------------------------------------------------
(* CleanParagraphsFn.process, one paragraph of its loop *)

GetTime == <<"g","e","t","T","i","m","e">>

\* what the loop body did with one paragraph: kept (appended), dropped
\* (continue) or raised, the counters it incremented, and the texts it held
Outcome(paragraph, kind, why, tsc, text, ub, ua) ==
  [source |-> paragraph.source, input |-> paragraph.text, kind |-> kind,
   why |-> why, text_space_cleaned |-> tsc, text |-> text,
   unicode_issue_before |-> ub, unicode_issue_after |-> ua]

\* the encode/decode round trip; with on = FALSE the step passes the text
\* through unchanged (the comparison case of the diagnostic-only property)
Recover(on, text) == IF on THEN RoundTrip(text) ELSE text

\* `if paragraph['source'] == 'title' and 'getTime' in text`
UnformattedTitle(paragraph) ==
  paragraph.source = "title" /\ Contains(GetTime, paragraph.text)

\* a whitespace stage that is not stable: it loses the first token
WhitespaceCleanTail(text_html_cleaned) ==
  IF split(text_html_cleaned) = <<>> THEN <<>>
  ELSE join(Tail(split(text_html_cleaned)))

\* ' '.join(text_html_cleaned.split())
WhitespaceClean(text_html_cleaned) == join(split(text_html_cleaned))

\* a loop without the emptiness check
NeverEmpty(text_space_cleaned) == FALSE

\* `if not text_space_cleaned`
EmptyAfterWhitespace(text_space_cleaned) == text_space_cleaned = <<>>

\* a post-clean round trip that drops the paragraph on a mismatch
UnicodeCleanAfterDrop(paragraph, text_space_cleaned, ub, post) ==
  IF Recover(post, text_space_cleaned) # text_space_cleaned
    THEN Outcome(paragraph, "drop", "unicode-issue-after-clean",
                 text_space_cleaned, <<>>, ub, TRUE)
  ELSE Outcome(paragraph, "keep", "kept", text_space_cleaned,
               text_space_cleaned, ub, FALSE)

\* "Unicode clean after clean" and the append
UnicodeCleanAfter(paragraph, text_space_cleaned, ub, post) ==
  LET text_space_cleaned_recovered == Recover(post, text_space_cleaned)
  IN Outcome(paragraph, "keep", "kept", text_space_cleaned,
             text_space_cleaned_recovered, ub,
             text_space_cleaned_recovered # text_space_cleaned)

\* the loop body from the residual-HTML check on; css is is_css(text_space_cleaned)
Detect(paragraph, text_space_cleaned, css, ub, post) ==
  IF is_html(text_space_cleaned)
    THEN Outcome(paragraph, "drop", "html-after-all-clean",
                 text_space_cleaned, <<>>, ub, FALSE)
  ELSE IF css.raised
    THEN Outcome(paragraph, "raise", "ZeroDivisionError",
                 text_space_cleaned, <<>>, ub, FALSE)
  ELSE IF css.value
    THEN Outcome(paragraph, "drop", "is-css-removed",
                 text_space_cleaned, <<>>, ub, FALSE)
  ELSE UnicodeCleanAfter(paragraph, text_space_cleaned, ub, post)

\* the loop body from "Whitespace clean" on
WhitespaceStage(paragraph, text_space_cleaned, ub, post) ==
  IF EmptyAfterWhitespace(text_space_cleaned)
    THEN Outcome(paragraph, "drop", "empty-after-whitespace-removed",
                 text_space_cleaned, <<>>, ub, FALSE)
  ELSE Detect(paragraph, text_space_cleaned, is_css(text_space_cleaned), ub, post)

\* the loop body from "HTML clean" on
HtmlStage(paragraph, text_recovered, post) ==
  WhitespaceStage(paragraph, WhitespaceClean(remove_tags(text_recovered)),
                  text_recovered # paragraph.text, post)

\* the loop body: pre and post say whether the two round trips are applied
CleanChain(paragraph, pre, post) ==
  IF UnformattedTitle(paragraph)
    THEN Outcome(paragraph, "drop", "unformatted-title", <<>>, <<>>, FALSE, FALSE)
  ELSE HtmlStage(paragraph, Recover(pre, paragraph.text), post)

\* the loop body as the code runs it: both round trips applied
CleanParagraph(paragraph) == CleanChain(paragraph, TRUE, TRUE)

\* the paragraphs appended in the loop
KeptParagraphs(os) ==
  SelectSeq([k \in 1..Len(os) |-> [text |-> os[k].text, source |-> os[k].source,
                                   kind |-> os[k].kind]],
            LAMBDA o : o.kind = "keep")

Paragraph(o) == [text |-> o.text, source |-> o.source]

\* the for/else over the kept paragraphs and the yield
TitleGate(json_example, os, kept) ==
  IF \E k \in 1..Len(os) : os[k].kind = "raise"
  THEN [raised |-> TRUE, outcomes |-> os, out |-> <<>>]
  ELSE IF ~\E k \in 1..Len(kept) : kept[k].source = "title"
  THEN [raised |-> FALSE, outcomes |-> os, out |-> <<>>]
  ELSE [raised |-> FALSE, outcomes |-> os,
        out |-> << [id |-> json_example.id,
                    category |-> json_example.category,
                    paragraphs |-> [k \in 1..Len(kept) |-> Paragraph(kept[k])],
                    attributes |-> json_example.attributes] >>]

LoopOutcomes(ps) == [k \in 1..Len(ps) |-> CleanParagraph(ps[k])]

Gate(json_example, os) == TitleGate(json_example, os, KeptParagraphs(os))

\* CleanParagraphsFn.process: [raised, outcomes, out]; out is what it yields
CleanParagraphsFn_process(json_example) ==
  Gate(json_example, LoopOutcomes(json_example.paragraphs))

-----------------------------------------------------------------------------
(* JSON values and the records of the two input files *)

Absent == [t |-> "absent", v |-> <<>>]   \* the key is not in the object
JNull == [t |-> "null", v |-> <<>>]
JNum == [t |-> "num", v |-> <<>>]
JMap == [t |-> "map", v |-> <<>>]
JStr(text) == [t |-> "str", v |-> text]
JList(values) == [t |-> "list", v |-> values]

_SOURCES == <<"title", "description", "feature", "price", "brand">>

Raw(asin, title, description, feature, price, brand) ==
  [asin |-> asin, title |-> title, description |-> description,
   feature |-> feature, price |-> price, brand |-> brand]

Label(id, category) == [id |-> id, category |-> category, attributes |-> "attrs"]

None == [t |-> "None", v |-> <<>>]

-----------------------------------------------------------------------------
(* The DoFns *)

\* json_example.get(_ASIN, '')
AsinKey(json_example) ==
  IF json_example.asin.t = "absent" THEN <<>> ELSE json_example.asin.v

\* labels_by_id.get(key)
Get(index, key) == IF key \in DOMAIN index THEN index[key] ELSE None

\* a join without `if not labels: return`
JoinNoGuard(json_example, index) ==
  << [json_example |-> json_example, labels |-> Get(index, AsinKey(json_example))] >>

\* JoinWithLabelsFn.process: the sequence of pairs it yields
JoinWithLabelsFn_process(json_example, index) ==
  LET labels_ == Get(index, AsinKey(json_example))
  IN IF labels_ = None
     THEN <<>>
     ELSE << [json_example |-> json_example, labels |-> labels_] >>

\* ConvertSourcesFn._create_paragraphs: [raised, paragraphs].  text.strip()
\* raises AttributeError on a list element that is not a string.
_create_paragraphs(source, json_example) ==
  LET data == json_example[source]
      texts == IF data.t = "str" THEN <<data>>
               ELSE IF data.t = "list" THEN data.v
               ELSE <<>>
      stripped == [k \in 1..Len(texts) |-> strip(texts[k].v)]
      kept == SelectSeq(stripped, LAMBDA x : x # <<>>)
  IN IF \E k \in 1..Len(texts) : texts[k].t # "str"
     THEN [raised |-> TRUE, paragraphs |-> <<>>]
     ELSE [raised |-> FALSE,
           paragraphs |-> [k \in 1..Len(kept) |-> [text |-> kept[k], source |-> source]]]

\* ConvertSourcesFn.process: [raised, out].  Unpacking a label that is not a
\* mapping raises as well.
ConvertSourcesFn_process(element) ==
  LET ps == [k \in 1..Len(_SOURCES) |-> _create_paragraphs(_SOURCES[k], element.json_example)]
      paragraphs == ps[1].paragraphs \o ps[2].paragraphs \o ps[3].paragraphs
                      \o ps[4].paragraphs \o ps[5].paragraphs
  IN IF (\E k \in 1..Len(ps) : ps[k].raised) \/ element.labels = None
     THEN [raised |-> TRUE, out |-> <<>>]
     ELSE [raised |-> FALSE,
           out |-> << [paragraphs |-> paragraphs,
                       id |-> element.labels.id,
                       category |-> element.labels.category,
                       attributes |-> element.labels.attributes] >>]

\* a last stage that keeps every element of the group
DedupeASIN_all(group) == group

\* DedupeASIN, `lambda x: list(x[1])[0]`: what it emits for one group
DedupeASIN_fn(group) == <<group[1]>>

-----------------------------------------------------------------------------
(* The pipeline *)

NoElem == [t |-> "none", v |-> <<>>]
EmptyMap == [k \in {} |-> NoElem]
NoGen == [css |-> 0, plain |-> 0]

Records == 1..Len(raw)

Upstream == {"raw", "joined", "converted", "cleaned"}

\* every raw record has been through the ParDos and the grouping
AllGrouped == \A i \in Records : stage[i] \notin Upstream /\ stage[i] # "raised"

Done == ~failed /\ AllGrouped /\ deduped = DOMAIN groups

Put(index, key, value) ==
  [k \in DOMAIN index \cup {key} |-> IF k = key THEN value ELSE index[k]]

\* KeyById and AsDict: one label record enters the side input; the engine
\* delivers the records in any order and a later one replaces an earlier one
KeyById(l) ==
  /\ ~failed
  /\ l \in labels \ keyed
  /\ keyed' = keyed \cup {l}
  /\ labels_by_id' = Put(labels_by_id, l.id, l)
  /\ UNCHANGED <<raw, labels, stage, elem, outcomes, groups, deduped, output,
                 failed, run, prevOutput, gen>>

\* JoinWithLabels on raw[i]; the side input is complete before the ParDo runs
JoinWithLabels(i) ==
  /\ ~failed
  /\ keyed = labels
  /\ stage[i] = "raw"
  /\ LET y == JoinWithLabelsFn_process(elem[i], labels_by_id)
     IN IF y = <<>>
        THEN /\ stage' = [stage EXCEPT ![i] = "nojoin"]
             /\ elem' = [elem EXCEPT ![i] = NoElem]
        ELSE /\ stage' = [stage EXCEPT ![i] = "joined"]
             /\ elem' = [elem EXCEPT ![i] = y[1]]
  /\ UNCHANGED <<raw, labels, keyed, labels_by_id, outcomes, groups, deduped,
                 output, failed, run, prevOutput, gen>>

\* ConvertSources on the pair of raw[i]; an exception fails the pipeline
ConvertSources(i) ==
  /\ ~failed
  /\ stage[i] = "joined"
  /\ LET r == ConvertSourcesFn_process(elem[i])
     IN IF r.raised
        THEN /\ stage' = [stage EXCEPT ![i] = "raised"]
             /\ elem' = [elem EXCEPT ![i] = NoElem]
             /\ failed' = TRUE
        ELSE /\ stage' = [stage EXCEPT ![i] = "converted"]
             /\ elem' = [elem EXCEPT ![i] = r.out[1]]
             /\ failed' = failed
  /\ UNCHANGED <<raw, labels, keyed, labels_by_id, outcomes, groups, deduped,
                 output, run, prevOutput, gen>>

\* the effect of CleanParagraphsFn.process returning r for raw[i]
Cleaned(i, r) ==
  /\ outcomes' = [outcomes EXCEPT ![i] = r.outcomes]
  /\ stage' = [stage EXCEPT ![i] = IF r.raised THEN "raised"
                                   ELSE IF r.out = <<>> THEN "nodoc"
                                   ELSE "cleaned"]
  /\ elem' = [elem EXCEPT ![i] = IF r.out = <<>> THEN NoElem ELSE r.out[1]]
  /\ failed' = r.raised

\* CleanParagraphs on the document of raw[i]; an exception fails the pipeline
CleanParagraphs(i) ==
  /\ ~failed
  /\ stage[i] = "converted"
  /\ Cleaned(i, CleanParagraphsFn_process(elem[i]))
  /\ UNCHANGED <<raw, labels, keyed, labels_by_id, groups, deduped, output,
                 run, prevOutput, gen>>

\* GroupByASIN receives the document of raw[i]: it joins the group of its id,
\* behind the documents the engine delivered before it
GroupByASIN(i) ==
  /\ ~failed
  /\ stage[i] = "cleaned"
  /\ LET id == elem[i].id
         group == IF id \in DOMAIN groups THEN groups[id] ELSE <<>>
     IN groups' = Put(groups, id, Append(group, elem[i]))
  /\ stage' = [stage EXCEPT ![i] = "grouped"]
  /\ UNCHANGED <<raw, labels, keyed, labels_by_id, elem, outcomes, deduped,
                 output, failed, run, prevOutput, gen>>

\* DedupeASIN on the group of identifier id, once the grouping is complete
DedupeASIN(id) ==
  /\ ~failed
  /\ AllGrouped
  /\ id \in DOMAIN groups \ deduped
  /\ output' = output \o DedupeASIN_fn(groups[id])
  /\ deduped' = deduped \cup {id}
  /\ UNCHANGED <<raw, labels, keyed, labels_by_id, stage, elem, outcomes,
                 groups, failed, run, prevOutput, gen>>

\* the pipeline is run a second time on the same two files
Rerun ==
  /\ Done
  /\ run = 1
  /\ run' = 2
  /\ prevOutput' = output
  /\ keyed' = {}
  /\ labels_by_id' = EmptyMap
  /\ stage' = [i \in Records |-> "raw"]
  /\ elem' = raw
  /\ outcomes' = [i \in Records |-> <<>>]
  /\ groups' = EmptyMap
  /\ deduped' = {}
  /\ output' = <<>>
  /\ UNCHANGED <<raw, labels, failed, gen>>

-----------------------------------------------------------------------------
(* Inputs *)

A == <<"A">>
B == <<"B">>
T1 == <<"h","i">>
T2 == <<"j","a","v","a">>

RawRecords ==
  { Raw(JStr(A), JStr(T1), Absent, Absent, Absent, Absent),
    Raw(JStr(A), JStr(T2), Absent, Absent, Absent, Absent),
    Raw(JStr(B), JStr(T1), Absent, Absent, Absent, Absent),
    Raw(Absent, JStr(T1), Absent, Absent, Absent, Absent),
    Raw(JStr(A), JStr(T1), Absent, JList(<<JStr(T2), JNum>>), Absent, Absent),
    Raw(JStr(A), JStr(GetTime), JList(<<JStr(T1), JStr(<<" ">>)>>), Absent, JNum, Absent),
    Raw(JStr(A), JList(<<JStr(<<" ">> \o T2)>>), JNull, Absent, JNum, JMap) }

LabelRecords == { Label(A, "c1"), Label(A, "c2"), Label(<<>>, "c1") }

RECURSIVE SeqsUpTo(_, _)
SeqsUpTo(S, n) ==
  IF n = 0 THEN {<<>>}
  ELSE LET shorter == SeqsUpTo(S, n - 1)
       IN shorter \cup {Append(q, x) : q \in {r \in shorter : Len(r) = n - 1}, x \in S}

Start(rs, ls) ==
  /\ raw = rs
  /\ labels = ls
  /\ keyed = {}
  /\ labels_by_id = EmptyMap
  /\ stage = [i \in 1..Len(rs) |-> "raw"]
  /\ elem = rs
  /\ outcomes = [i \in 1..Len(rs) |-> <<>>]
  /\ groups = EmptyMap
  /\ deduped = {}
  /\ output = <<>>
  /\ failed = FALSE
  /\ run = 1
  /\ prevOutput = <<>>
  /\ gen = NoGen

Init ==
  \E rs \in SeqsUpTo(RawRecords, MaxRaw) \ {<<>>}, ls \in SUBSET LabelRecords :
    Start(rs, ls)

Next ==
  \/ \E l \in labels : KeyById(l)
  \/ \E i \in Records : JoinWithLabels(i)
  \/ \E i \in Records : ConvertSources(i)
  \/ \E i \in Records : CleanParagraphs(i)
  \/ \E i \in Records : GroupByASIN(i)
  \/ \E id \in DOMAIN groups : DedupeASIN(id)
  \/ Rerun

Spec == Init /\ [][Next]_vars

-----------------------------------------------------------------------------
(* The cleaning of one document, on texts put together from markup pieces *)

Pieces ==
  { <<"<","p",">">>,
    <<"<","s","c","r","i","p","t",">">>, <<"<","/","s","c","r","i","p","t",">">>,
    <<"&","a","m","p",";">>, <<"&","l","t",";">>,
    <<"&","#","x","D","8","0","0",";">>, <<SUR>>, <<" ">>,
    T2, <<"s","c","r","i","p","t",":">>, GetTime, <<"l","t",";">> }

\* the texts made of exactly k pieces
RECURSIVE PieceTexts(_)
PieceTexts(k) ==
  IF k = 0 THEN {<<>>}
  ELSE {p \o t : p \in Pieces, t \in PieceTexts(k - 1)}

L1 == Label(A, "c1")

\* one joined pair waits for ConvertSources
Joined(r, l, g) ==
  /\ raw = <<r>>
  /\ labels = {l}
  /\ keyed = {l}
  /\ labels_by_id = Put(EmptyMap, l.id, l)
  /\ stage = <<"joined">>
  /\ elem = <<[json_example |-> r, labels |-> l]>>
  /\ outcomes = <<<<>>>>
  /\ groups = EmptyMap
  /\ deduped = {}
  /\ output = <<>>
  /\ failed = FALSE
  /\ run = 1
  /\ prevOutput = <<>>
  /\ gen = g

InitClean ==
  \E k1 \in 0..MaxPieces :
    \E k2 \in 0..(MaxPieces - k1) :
      \E title \in PieceTexts(k1), description \in PieceTexts(k2) :
        Joined(Raw(JStr(A), JStr(title), JStr(description), Absent, Absent, Absent),
               L1, NoGen)

NextClean ==
  \/ \E i \in Records : ConvertSources(i)
  \/ \E i \in Records : CleanParagraphs(i)

SpecClean == InitClean /\ [][NextClean]_vars

-----------------------------------------------------------------------------
(* The cleaning of one document whose description is a run of tokens *)

\* a CSS-element token, a plain token, and which of the two runs comes first
TokenPairs ==
  { <<<<".","a">>, T1, TRUE>>,
    <<<<"#","a">>, <<"a","-","b">>, FALSE>>,
    <<<<"d","i","v">>, T1, FALSE>>,
    <<<<"1","p","x">>, <<"a","-","b">>, TRUE>>,
    <<<<"a","-","b","-","c">>, <<"p">>, TRUE>> }

\* n copies of token, each followed by a space
RECURSIVE Repeat(_, _)
Repeat(token, n) ==
  IF n = 0 THEN <<>> ELSE token \o <<" ">> \o Repeat(token, n - 1)

InitCss ==
  \E c \in 0..MaxCssTokens, p \in 0..MaxPlainTokens, tp \in TokenPairs :
    /\ c + p > 0
    /\ Joined(Raw(JStr(A), JStr(T1),
                  JStr(IF tp[3] THEN Repeat(tp[1], c) \o Repeat(tp[2], p)
                                ELSE Repeat(tp[2], p) \o Repeat(tp[1], c)),
                  Absent, Absent, Absent),
              L1, [css |-> c, plain |-> p])

SpecCss == InitCss /\ [][NextClean]_vars

-----------------------------------------------------------------------------
(* Properties *)

Docs(q) == {q[j] : j \in 1..Len(q)}

\* the identifiers for which CleanParagraphsFn emitted a document
EmittedIds == {elem[i].id : i \in {j \in Records : stage[j] \in {"cleaned", "grouped"}}}

\* C1: after GroupByASIN and DedupeASIN no two output documents share an
\* identifier, and once the run is complete every identifier for which
\* CleanParagraphsFn emitted a document has exactly one document in the output.
C1_UniqueIdentifiers ==
  /\ \A j, k \in 1..Len(output) : j # k => output[j].id # output[k].id
  /\ Done => \A id \in EmittedIds :
               Cardinality({j \in 1..Len(output) : output[j].id = id}) = 1

\* a complete run in which one group held two different documents
C1_Witness ==
  /\ Done
  /\ \E id \in DOMAIN groups :
       /\ Len(groups[id]) = 2
       /\ groups[id][1] # groups[id][2]
       /\ Cardinality({j \in 1..Len(output) : output[j].id = id}) = 1

\* C2: a second run of the pipeline on the same input yields the same set of
\* output documents as the first, whatever order the engine delivers the
\* elements of a group in.
C2_Deterministic == (run = 2 /\ Done) => Docs(output) = Docs(prevOutput)

\* C3: a raw record whose asin has no entry in the label index is not joined
\* (JoinWithLabelsFn.process yields nothing), and no output document carries
\* its identifier.
C3_NoLabelNoDocument ==
  keyed = labels =>
    \A i \in Records :
      AsinKey(raw[i]) \notin DOMAIN labels_by_id =>
        /\ stage[i] \in {"raw", "nojoin"}
        /\ \A j \in 1..Len(output) : output[j].id # AsinKey(raw[i])

\* a complete run with labels, output, and a record dropped for want of a label
C3_Witness ==
  /\ Done
  /\ labels # {}
  /\ output # <<>>
  /\ \E i \in Records :
       AsinKey(raw[i]) \notin DOMAIN labels_by_id /\ stage[i] = "nojoin"

\* C4: a raw record without an asin field is dropped by the join, whatever
\* label records the index was built from.
C4_MissingAsinDropped ==
  \A i \in Records : raw[i].asin = Absent => stage[i] \in {"raw", "nojoin"}

\* the residual-HTML markers and emptiness, on the paragraphs of a document
WellFormed(doc) ==
  /\ \E k \in 1..Len(doc.paragraphs) : doc.paragraphs[k].source = "title"
  /\ \A k \in 1..Len(doc.paragraphs) :
       /\ doc.paragraphs[k].text # <<>>
       /\ ~is_html(doc.paragraphs[k].text)

\* C5: every document CleanParagraphsFn emits has a title paragraph and only
\* paragraphs with non-empty text free of the residual-HTML markers; when no
\* title paragraph survives, no document is emitted.
C5_WellFormedOrAbsent ==
  \A i \in Records :
    /\ stage[i] = "cleaned" => WellFormed(elem[i])
    /\ (stage[i] \in {"cleaned", "nodoc"}
          /\ ~\E k \in 1..Len(outcomes[i]) :
                outcomes[i][k].kind = "keep" /\ outcomes[i][k].source = "title")
       => stage[i] = "nodoc"

\* the outcome of the description paragraph (the title "hi" comes first)
DescriptionOutcomes(i) ==
  {outcomes[i][k] : k \in {j \in 1..Len(outcomes[i]) : outcomes[i][j].source = "description"}}

\* C6: a text of T tokens of which C are CSS elements is dropped by the
\* CSS-noise detector exactly when C/T > 0.3 and C > 20, and is kept otherwise.
C6_CssThreshold ==
  \A i \in Records :
    stage[i] \in {"cleaned", "nodoc"} =>
      /\ DescriptionOutcomes(i) # {}
      /\ \A o \in DescriptionOutcomes(i) :
           IF 10 * gen.css > 3 * (gen.css + gen.plain) /\ gen.css > 20
           THEN o.kind = "drop" /\ o.why = "is-css-removed"
           ELSE o.kind = "keep"

\* 21 CSS elements among 69 tokens: dropped
C6_Witness ==
  /\ gen.css = 21
  /\ gen.plain = 48
  /\ stage[1] = "cleaned"
  /\ \E o \in DescriptionOutcomes(1) : o.why = "is-css-removed"

\* the paragraphs the loop kept, as it recorded them
KeptOutcomes == {o \in UNION {Docs(outcomes[i]) : i \in Records} : o.kind = "keep"}

AllOutcomes == UNION {Docs(outcomes[i]) : i \in Records}

Rerunning(o) == CleanParagraph([text |-> o.text, source |-> o.source])

StableText(o) ==
  /\ ~Contains(<<"<">>, o.text)
  /\ ~Contains(<<"&">>, o.text)
  /\ ~o.unicode_issue_after
  /\ ~(o.source = "title" /\ Contains(GetTime, o.text))

Original(o) == [text |-> o.input, source |-> o.source]

\* C8: the keep/drop decision for a paragraph is the one the chain would take
\* if both encode/decode round trips passed the text through unchanged.
C8_RoundTripsDiagnosticOnly ==
  \A o \in AllOutcomes :
    (o.kind = "keep") <=> (CleanChain(Original(o), FALSE, FALSE).kind = "keep")

\* C8 as amended: the post-clean round trip never changes the keep/drop
\* decision (a paragraph whose text it changes is still kept); the pre-clean
\* round trip replaces the text the later stages judge.
C8_PostCleanDiagnosticOnly ==
  \A o \in AllOutcomes :
    /\ (o.kind = "keep") <=> (CleanChain(Original(o), TRUE, FALSE).kind = "keep")
    /\ o.unicode_issue_after => o.kind = "keep"

\* a kept paragraph whose text the post-clean round trip changed
C8_Witness ==
  \E o \in KeptOutcomes : o.unicode_issue_after /\ o.text # o.text_space_cleaned

\* C9: ConvertSourcesFn.process never raises, whatever the values of the
\* source fields.
C9_ConvertNeverRaises == \A i \in Records : stage[i] # "raised"

\* C10: inside CleanParagraphsFn.process is_css never divides by zero: every
\* text that reaches it has at least one token (is_css itself does divide by
\* zero on an empty or whitespace-only text).
C10_NoZeroDivision ==
  /\ ~failed
  /\ \A o \in AllOutcomes :
       /\ o.kind # "raise"
       /\ o.why \in {"is-css-removed", "kept"} => Len(split(o.text_space_cleaned)) >= 1
  /\ is_css(<<>>).raised
  /\ is_css(<<" ", " ">>).raised

\* one paragraph was caught as empty before is_css, another went through it
C10_Witness ==
  /\ \E o \in AllOutcomes :
       /\ o.why = "empty-after-whitespace-removed"
       /\ o.input # <<>>
       /\ split(o.text_space_cleaned) = <<>>
  /\ \E o \in AllOutcomes : o.why = "kept"

=============================================================================
